---------------------------- MODULE Spec2Model ----------------------------
(***************************************************************************)
(* Model of scripts/apply_skin.py: the batch driver generate_sf_tiles with *)
(* its fetch collaborator download_osm_tile, the projection                *)
(* lat_lon_to_tile, and the pixel pipeline of apply_skin, alone and called *)
(* on files; and of scripts/ship_it.py: QualityGateExecutor.execute with   *)
(* its thread pool of checks.                                              *)
(***************************************************************************)
EXTENDS Integers, Sequences, FiniteSets, TLC

VARIABLES
    pc,        \* generate_sf_tiles: "running", "done" (returned), "raised"
    ci,        \* index into zoom_configs (outer loop)
    dx,        \* loop variable dx
    dy,        \* loop variable dy
    raw,       \* state of the file at raw_path, per tile
    cartoon,   \* tiles whose output_path holds a skinned tile
    log,       \* this run's loop iterations, in order
    failing,   \* environment: tiles whose download does not succeed in this run
    failKind,  \* environment: where such a download breaks
    runs,      \* number of batch runs started
    raw0,      \* history: raw as this run found it
    cartoon0,  \* history: cartoon as this run found it
    stage,     \* apply_skin: the last pipeline step completed ("idle": not called)
    tile_img,  \* apply_skin: the tile as loaded, a row of RGB pixels
    vibe_img,  \* apply_skin: the vibe image as loaded
    smoothed,  \* apply_skin: after the two Gaussian blurs
    saturated, \* apply_skin: after the saturation boost
    posterized,\* apply_skin: after ImageOps.posterize
    influenced,\* apply_skin: after the vibe color step
    result,    \* apply_skin: the image that is saved
    chanIn,    \* a pair of 8-bit channel values given to one per-channel step
    chanOp,    \* the per-channel step applied to chanIn ("none" before)
    chanOut,   \* what the step made of chanIn
    tile_file, \* apply_skin call: what the file at tile_path holds
    vibe_file, \* apply_skin call: what the file at vibe_path holds
    out_dir,   \* apply_skin call: the directory of output_path exists
    out_file,  \* apply_skin call: what the file at output_path holds
    calls,     \* history: the apply_skin calls made so far, in order
    proj_pc,   \* lat_lon_to_tile: "idle", "called", "returned"
    proj_lon,  \* lat_lon_to_tile: the longitude, in units of 1e-4 degree
    proj_zoom, \* lat_lon_to_tile: the zoom level
    xtile,     \* lat_lon_to_tile: the x it returns
    gate_pc,   \* ship_it: where QualityGateExecutor.execute is
    requested, \* ship_it: the checks argument of execute (given or None, and its names)
    fail_fast, \* ship_it: the --fail-fast flag
    outcome,   \* environment: how the subprocess of each check ends
    checks_to_run, \* ship_it: the checks submitted to the pool, in order
    future,    \* ship_it: the state of each submitted future
    results,   \* ship_it: number of CheckResults appended, per submitted check
    exit_code  \* ship_it: the exit status of the process (-1 while it runs)

batchVars ==
    <<pc, ci, dx, dy, raw, cartoon, log, failing, failKind, runs, raw0, cartoon0>>

skinVars == <<stage, tile_img, vibe_img, smoothed, saturated, posterized, influenced, result>>

chanVars == <<chanIn, chanOp, chanOut>>

callVars == <<tile_file, vibe_file, out_dir, out_file, calls>>

projVars == <<proj_pc, proj_lon, proj_zoom, xtile>>

gateVars ==
    <<gate_pc, requested, fail_fast, outcome, checks_to_run, future, results, exit_code>>

otherVars == <<callVars, projVars, gateVars>>

vars == <<batchVars, skinVars, chanVars, callVars, projVars, gateVars>>

-----------------------------------------------------------------------------
(* Bounds of the model *)

\* number of consecutive batch runs over the same assets directory
MaxRuns == 2

\* number of pixels of an image
ImgLen == 4

\* number of apply_skin calls made one after the other on files
MaxCalls == 3

\* the highest zoom level given to lat_lon_to_tile on its own
MaxZoom == 15

-----------------------------------------------------------------------------
(* apply_skin: images and the per-pixel arithmetic of the pipeline.         *)
(* An image is a row of ImgLen RGB pixels, which is also the size the vibe  *)
(* image is resized to, so that Image.resize returns a copy. The float32    *)
(* products and sums are modelled by exact rational arithmetic, carried as  *)
(* a numerator over a fixed denominator. For the saturation blend and the   *)
(* brightness step this agrees with float32 on every 8-bit input; for the   *)
(* vibe shift float32 rounding can move a sum that is an exact integer to   *)
(* the integer below it.                                                    *)

Channels == 1..3

Pixels == 1..ImgLen

NoImage == <<>>

\* a row given by its pixels, as a tuple
Row(f) == f \o <<>>

\* the image whose pixels all have the color c
Uniform(c) == Row([i \in Pixels |-> c])

\* np.clip(x, 0, 255).astype(np.uint8) read as the remainder modulo 256
ClipToUint8_Wraps(num, den) ==
    LET fl == IF num >= 0 THEN num \div den ELSE -((-num + den - 1) \div den)
    IN  fl % 256

\* np.clip(x, 0, 255).astype(np.uint8) of the value num / den (den > 0):
\* values outside the range go to the nearest bound, the rest are truncated
ClipToUint8(num, den) ==
    IF num <= 0 THEN 0
    ELSE IF num >= 255 * den THEN 255
    ELSE num \div den

\* one box pass of ImageFilter.GaussianBlur(radius=1.0) on a pixel with its
\* left and right neighbours: the box radius is 0.25, the weights are
\* fw : ww : fw = 2796203 : 11184810 : 2796203 over 2^24, and the sum is
\* rounded by (bulk + 2^23) >> 24. The weights are 1/6 : 4/6 : 1/6 up to
\* -0.67 and +0.33, which decides the ties only.
BoxBlur1(l, c, r) ==
    LET sum == l + 4 * c + r
    IN  IF sum % 6 = 3 /\ l + r < 2 * c THEN sum \div 6 ELSE (sum + 3) \div 6

\* one horizontal box pass over the row; the edges are extended by the edge pixel
BoxBlurPass(img) ==
    LET B(i, c) == BoxBlur1(img[IF i = 1 THEN 1 ELSE i - 1][c],
                            img[i][c],
                            img[IF i = ImgLen THEN ImgLen ELSE i + 1][c])
    IN  Row([i \in Pixels |-> <<B(i, 1), B(i, 2), B(i, 3)>>])

\* smoothed.filter(ImageFilter.GaussianBlur(radius=1.0)): three box passes
\* (the vertical passes leave a one-row image as it is)
GaussianBlur(img) == BoxBlurPass(BoxBlurPass(BoxBlurPass(img)))

\* for _ in range(2): smoothed = smoothed.filter(GaussianBlur)
Smooth(img) == GaussianBlur(GaussianBlur(img))

\* convert("L") of one pixel: (19595 R + 38470 G + 7471 B + 0x8000) >> 16
Luma(px) == (19595 * px[1] + 38470 * px[2] + 7471 * px[3] + 32768) \div 65536

\* ImageEnhance.Color(smoothed).enhance(1.8): each channel becomes
\* L + 1.8 * (v - L), clipped to [0, 255] and truncated
EnhanceColor(img) ==
    LET E(i, c) == ClipToUint8(18 * img[i][c] - 8 * Luma(img[i]), 10)
    IN  Row([i \in Pixels |-> <<E(i, 1), E(i, 2), E(i, 3)>>])

\* the 3-bit posterize: v & 0xE0
Posterize_3Bits(v) == v - (v % 32)

\* ImageOps.posterize(image, 4) on one channel: v & 0xF0
Posterize(v) == v - (v % 16)

PosterizeImage(img) ==
    Row([i \in Pixels |->
            <<Posterize(img[i][1]), Posterize(img[i][2]), Posterize(img[i][3])>>])

\* arr.mean(axis=(0, 1)) times the number of pixels, per channel
RECURSIVE SumUpTo(_, _, _)
SumUpTo(img, c, n) == IF n = 0 THEN 0 ELSE img[n][c] + SumUpTo(img, c, n - 1)

ChannelSum(img) ==
    <<SumUpTo(img, 1, ImgLen), SumUpTo(img, 2, ImgLen), SumUpTo(img, 3, ImgLen)>>

\* vibe_img.resize((32, 32), Image.LANCZOS) of an image of that size
vibe_small(img) == img

\* (vibe_mean - post_mean) * ImgLen, per channel
MeanDiff(vibe, post) ==
    LET v == ChannelSum(vibe_small(vibe))
        p == ChannelSum(post)
    IN  <<v[1] - p[1], v[2] - p[2], v[3] - p[3]>>

\* np.linalg.norm(vibe_mean - post_mean) squared, times ImgLen^2
SqDistance(vibe, post) ==
    LET d == MeanDiff(vibe, post)
    IN  d[1] * d[1] + d[2] * d[2] + d[3] * d[3]

\* the test with >= in place of >
ShiftNeeded_AtThreshold(vibe, post) == SqDistance(vibe, post) >= 400 * ImgLen * ImgLen

\* if color_distance > 20
ShiftNeeded(vibe, post) == SqDistance(vibe, post) > 400 * ImgLen * ImgLen

\* the shift taken as the whole difference of the means
ShiftedChannel_Full(v, diff) == ClipToUint8(v * ImgLen + diff, ImgLen)

\* the shift taken away from the vibe mean: post_mean - vibe_mean
ShiftedChannel_Away(v, diff) == ClipToUint8(v * 20 * ImgLen - 3 * diff, 20 * ImgLen)

\* np.clip(v + shift, 0, 255).astype(np.uint8) with
\* shift = (vibe_mean - post_mean) * 0.15 = 3 * diff / (20 * ImgLen)
ShiftedChannel(v, diff) == ClipToUint8(v * 20 * ImgLen + 3 * diff, 20 * ImgLen)

\* Step 3: the vibe color influence on the posterized image
VibeInfluence(vibe, post) ==
    LET d == MeanDiff(vibe, post)
    IN  IF ShiftNeeded(vibe, post)
        THEN Row([i \in Pixels |->
                    <<ShiftedChannel(post[i][1], d[1]),
                      ShiftedChannel(post[i][2], d[2]),
                      ShiftedChannel(post[i][3], d[3])>>])
        ELSE post

\* the boost without the clip: the uint8 cast wraps
Boost_Wraps(v) == ClipToUint8_Wraps(11 * v + 50, 10)

\* np.clip(v * 1.1 + 5, 0, 255).astype(np.uint8) on one channel
Boost(v) == ClipToUint8(11 * v + 50, 10)

BoostImage(img) ==
    Row([i \in Pixels |-> <<Boost(img[i][1]), Boost(img[i][2]), Boost(img[i][3])>>])

\* apply_skin as a function of its two images: the pixels it saves
SkinOf(tile, vibe) ==
    BoostImage(VibeInfluence(vibe, PosterizeImage(EnhanceColor(Smooth(tile)))))

\* apply_skin has not been called
SkinIdle ==
    /\ stage = "idle"
    /\ tile_img = NoImage
    /\ vibe_img = NoImage
    /\ smoothed = NoImage
    /\ saturated = NoImage
    /\ posterized = NoImage
    /\ influenced = NoImage
    /\ result = NoImage

\* no per-channel step is being looked at
ChanIdle ==
    /\ chanIn = <<0, 0>>
    /\ chanOp = "none"
    /\ chanOut = <<0, 0>>

\* no apply_skin call on files is being looked at
CallIdle ==
    /\ tile_file = NoImage
    /\ vibe_file = NoImage
    /\ out_dir = FALSE
    /\ out_file = NoImage
    /\ calls = <<>>

\* lat_lon_to_tile is not being looked at on its own
ProjIdle ==
    /\ proj_pc = "idle"
    /\ proj_lon = 0
    /\ proj_zoom = 0
    /\ xtile = 0

\* the quality gate is not running
GateIdle ==
    /\ gate_pc = "idle"
    /\ requested = [given |-> FALSE, names |-> <<>>]
    /\ fail_fast = FALSE
    /\ outcome = <<>>
    /\ checks_to_run = <<>>
    /\ future = <<>>
    /\ results = <<>>
    /\ exit_code = -1

OthersIdle == CallIdle /\ ProjIdle /\ GateIdle

-----------------------------------------------------------------------------
(* generate_sf_tiles: constants and coordinate projection *)

\* center_lon = -122.4324, in units of 1e-4 degree
CenterLonE4 == -1224324

\* (1 - ln(tan(lat) + sec(lat)) / pi) / 2 for center_lat = 37.78825,
\* in units of 2^-20 (truncated): 0.38647...
CenterYFrac20 == 405247

zoom_configs == << <<13, 1>>, <<14, 1>>, <<15, 2>> >>

Zoom(i) == zoom_configs[i][1]
Padding(i) == zoom_configs[i][2]

\* x = int((lon + 180) / 360 * 2^zoom); 360 degrees = 2^7 * 28125 units
lat_lon_to_tile_x(lonE4, zoom) ==
    IF zoom >= 7
    THEN ((lonE4 + 1800000) * 2^(zoom - 7)) \div 28125
    ELSE (lonE4 + 1800000) \div (28125 * 2^(7 - zoom))

\* y = int(yfrac * 2^zoom) for the one latitude the batch uses
lat_lon_to_tile_y(zoom) == CenterYFrac20 \div 2^(20 - zoom)

lat_lon_to_tile(zoom) ==
    <<lat_lon_to_tile_x(CenterLonE4, zoom), lat_lon_to_tile_y(zoom)>>

\* for dx in range(-padding, padding + 1) / for dy in range(-padding, padding + 1)
LoopRange(padding) == (-padding)..padding

\* x, y = cx + dx, cy + dy  (with its zoom: the key of raw_path and output_path)
TileAt(i, ddx, ddy) ==
    LET c == lat_lon_to_tile(Zoom(i))
    IN  [z |-> Zoom(i), x |-> c[1] + ddx, y |-> c[2] + ddy]

Grid(i) == {TileAt(i, a, b) : a \in LoopRange(Padding(i)), b \in LoopRange(Padding(i))}

AllTiles == UNION {Grid(i) : i \in 1..Len(zoom_configs)}

\* NextPos with range(-padding, padding): the last offset is left out
NextPos_ShortRange(i, ddx, ddy) ==
    IF ddy + 1 < Padding(i)
    THEN [ci |-> i, dx |-> ddx, dy |-> ddy + 1]
    ELSE IF ddx + 1 < Padding(i)
    THEN [ci |-> i, dx |-> ddx + 1, dy |-> -Padding(i)]
    ELSE IF i + 1 \in 1..Len(zoom_configs)
    THEN [ci |-> i + 1, dx |-> -Padding(i + 1), dy |-> -Padding(i + 1)]
    ELSE [ci |-> i + 1, dx |-> 0, dy |-> 0]

\* the loop variables after one more iteration of the three nested loops;
\* ci beyond the last configuration means the loops are exhausted
NextPos(i, ddx, ddy) ==
    IF ddy + 1 \in LoopRange(Padding(i))
    THEN [ci |-> i, dx |-> ddx, dy |-> ddy + 1]
    ELSE IF ddx + 1 \in LoopRange(Padding(i))
    THEN [ci |-> i, dx |-> ddx + 1, dy |-> -Padding(i)]
    ELSE IF i + 1 \in 1..Len(zoom_configs)
    THEN [ci |-> i + 1, dx |-> -Padding(i + 1), dy |-> -Padding(i + 1)]
    ELSE [ci |-> i + 1, dx |-> 0, dy |-> 0]

-----------------------------------------------------------------------------
(* Files and the collaborators of the batch loop *)

\* what the file at a raw_path can be: missing, a whole tile, a file that was
\* opened for writing but never written (empty), or a truncated body
FileStates == {"absent", "complete", "empty", "partial"}

FailKinds == {"connect", "read", "write", "mkdir"}

\* os_path_exists answering False whatever the cache holds
os_path_exists_Never(t) == FALSE

\* os.path.exists(raw_path)
os_path_exists(t) == raw[t] # "absent"

\* download_osm_tile: the value it returns ("true"/"false") or "raised" when an
\* exception leaves it, and the file it leaves at output_path.
\*   mkdir   - os.makedirs fails: it is called before the try block
\*   connect - urlopen raises (network error, HTTP error, timeout)
\*   read    - response.read() raises after open(output_path, "wb")
\*   write   - f.write raises part-way
download_osm_tile(t, file) ==
    IF t \notin failing
    THEN [ret |-> "true", file |-> "complete"]
    ELSE CASE failKind = "mkdir"   -> [ret |-> "raised", file |-> file]
           [] failKind = "connect" -> [ret |-> "false", file |-> file]
           [] failKind = "read"    -> [ret |-> "false", file |-> "empty"]
           [] failKind = "write"   -> [ret |-> "false", file |-> "partial"]

\* apply_skin seen from the batch: Image.open(...).convert("RGB") raises on a
\* file that is not a whole image, otherwise the result is saved
apply_skin_file(file) == IF file = "complete" THEN "saved" ELSE "raised"

Entry(t, cached, fetch, skin) ==
    [tile |-> t, cached |-> cached, fetch |-> fetch, skin |-> skin]

\* the end of one iteration that did not raise: the loops move on
Advance ==
    LET n == NextPos(ci, dx, dy)
    IN  /\ ci' = n.ci
        /\ dx' = n.dx
        /\ dy' = n.dy
        /\ pc' = IF n.ci \in 1..Len(zoom_configs) THEN "running" ELSE "done"

\* an exception leaves generate_sf_tiles: the loops stop where they are
Raise ==
    /\ pc' = "raised"
    /\ UNCHANGED <<ci, dx, dy>>

\* apply_skin(raw_path, vibe_path, output_path) and the end of the iteration
CallApplySkin(t, cached, fetch) ==
    LET s == apply_skin_file(raw'[t])
    IN  /\ log' = Append(log, Entry(t, cached, fetch, s))
        /\ IF s = "saved"
           THEN cartoon' = cartoon \cup {t} /\ Advance
           ELSE cartoon' = cartoon /\ Raise

-----------------------------------------------------------------------------
(* generate_sf_tiles: one iteration of the loop body per action *)

CurTile == TileAt(ci, dx, dy)

\* os.path.exists(raw_path): no download, apply_skin
VisitCached ==
    /\ pc = "running"
    /\ os_path_exists(CurTile)
    /\ raw' = raw
    /\ CallApplySkin(CurTile, TRUE, "none")
    /\ UNCHANGED <<failing, failKind, runs, raw0, cartoon0, skinVars, chanVars, otherVars>>

\* raw tile missing, download_osm_tile returns True, apply_skin
VisitFetched ==
    /\ pc = "running"
    /\ ~os_path_exists(CurTile)
    /\ LET d == download_osm_tile(CurTile, raw[CurTile])
       IN  /\ d.ret = "true"
           /\ raw' = [raw EXCEPT ![CurTile] = d.file]
           /\ CallApplySkin(CurTile, FALSE, "true")
    /\ UNCHANGED <<failing, failKind, runs, raw0, cartoon0, skinVars, chanVars, otherVars>>

\* VisitSkipped without the continue: apply_skin is called on the failed tile
VisitSkipped_FallsThrough ==
    /\ pc = "running"
    /\ ~os_path_exists(CurTile)
    /\ LET d == download_osm_tile(CurTile, raw[CurTile])
       IN  /\ d.ret = "false"
           /\ raw' = [raw EXCEPT ![CurTile] = d.file]
           /\ CallApplySkin(CurTile, FALSE, "false")
    /\ UNCHANGED <<failing, failKind, runs, raw0, cartoon0, skinVars, chanVars, otherVars>>

\* VisitSkipped with return in place of continue: the loops end at the failure
VisitSkipped_Returns ==
    /\ pc = "running"
    /\ ~os_path_exists(CurTile)
    /\ LET d == download_osm_tile(CurTile, raw[CurTile])
       IN  /\ d.ret = "false"
           /\ raw' = [raw EXCEPT ![CurTile] = d.file]
           /\ log' = Append(log, Entry(CurTile, FALSE, "false", "none"))
    /\ pc' = "done"
    /\ UNCHANGED <<ci, dx, dy, cartoon, failing, failKind, runs, raw0, cartoon0, skinVars, chanVars, otherVars>>

\* raw tile missing, download_osm_tile returns False: continue
VisitSkipped ==
    /\ pc = "running"
    /\ ~os_path_exists(CurTile)
    /\ LET d == download_osm_tile(CurTile, raw[CurTile])
       IN  /\ d.ret = "false"
           /\ raw' = [raw EXCEPT ![CurTile] = d.file]
           /\ log' = Append(log, Entry(CurTile, FALSE, "false", "none"))
    /\ Advance
    /\ UNCHANGED <<cartoon, failing, failKind, runs, raw0, cartoon0, skinVars, chanVars, otherVars>>

\* raw tile missing, an exception leaves download_osm_tile and the loop
VisitFetchRaised ==
    /\ pc = "running"
    /\ ~os_path_exists(CurTile)
    /\ LET d == download_osm_tile(CurTile, raw[CurTile])
       IN  /\ d.ret = "raised"
           /\ raw' = [raw EXCEPT ![CurTile] = d.file]
           /\ log' = Append(log, Entry(CurTile, FALSE, "raised", "none"))
    /\ Raise
    /\ UNCHANGED <<cartoon, failing, failKind, runs, raw0, cartoon0, skinVars, chanVars, otherVars>>

\* the script is run again over the same assets directory; the network either
\* behaves as before or has recovered
StartRun ==
    /\ pc \in {"done", "raised"}
    /\ runs < MaxRuns
    /\ runs' = runs + 1
    /\ pc' = "running"
    /\ ci' = 1
    /\ dx' = -Padding(1)
    /\ dy' = -Padding(1)
    /\ log' = <<>>
    /\ failing' \in {failing, {}}
    /\ raw0' = raw
    /\ cartoon0' = cartoon
    /\ UNCHANGED <<raw, cartoon, failKind, skinVars, chanVars, otherVars>>

\* the raw-tile caches a first run may find
InitialCaches ==
    { [t \in AllTiles |-> "absent"],
      [t \in AllTiles |-> "complete"],
      [t \in AllTiles |-> IF t.z = 14 THEN "complete" ELSE "absent"] }

\* the sets of tiles whose download may break in one run
FailSets ==
    {{}, AllTiles} \cup {{t} : t \in AllTiles}
                   \cup {Grid(i) : i \in 1..Len(zoom_configs)}

Init ==
    /\ pc = "running"
    /\ ci = 1
    /\ dx = -Padding(1)
    /\ dy = -Padding(1)
    /\ raw \in InitialCaches
    /\ cartoon = {}
    /\ log = <<>>
    /\ failing \in FailSets
    /\ failKind \in (IF failing = {} THEN {"connect"} ELSE FailKinds)
    /\ runs = 1
    /\ raw0 = raw
    /\ cartoon0 = cartoon
    /\ SkinIdle
    /\ ChanIdle
    /\ OthersIdle

Next ==
    \/ VisitCached
    \/ VisitFetched
    \/ VisitSkipped
    \/ VisitFetchRaised
    \/ StartRun

Spec == Init /\ [][Next]_vars

-----------------------------------------------------------------------------
(* apply_skin on one tile and one vibe image, one pipeline step per action *)

\* the batch is not running
BatchIdle ==
    /\ pc = "done"
    /\ ci = 1
    /\ dx = 0
    /\ dy = 0
    /\ raw = [t \in AllTiles |-> "absent"]
    /\ cartoon = {}
    /\ log = <<>>
    /\ failing = {}
    /\ failKind = "connect"
    /\ runs = 1
    /\ raw0 = raw
    /\ cartoon0 = cartoon

\* colors of the tiles given to the pipeline
TileColors ==
    { <<200, 100, 50>>, <<12, 12, 12>>, <<250, 250, 250>>, <<30, 60, 200>>,
      <<250, 10, 10>> }

\* the tiles: every solid gray, and every row whose left half has one of the
\* TileColors and whose right half has another (or the same)
Tiles ==
    {Uniform(<<v, v, v>>) : v \in 0..255}
        \cup {Row([i \in Pixels |-> IF 2 * i <= ImgLen THEN a ELSE b]) :
                a \in TileColors, b \in TileColors}

\* colors of the solid vibe images
VibeColors ==
    { <<0, 0, 0>>, <<255, 255, 255>>, <<255, 255, 0>>, <<36, 16, 16>>,
      <<128, 128, 128>> }

\* the vibe images: solid ones, a dark row ending in one white pixel, and
\* (in InitSkin) the tile itself
Vibes ==
    {Uniform(c) : c \in VibeColors}
        \cup {Row([i \in Pixels |-> IF i = ImgLen THEN <<255, 255, 255>> ELSE <<0, 0, 0>>])}

\* tile_img = Image.open(tile_path).convert("RGB"), likewise vibe_img
InitSkin ==
    /\ BatchIdle
    /\ ChanIdle
    /\ OthersIdle
    /\ stage = "loaded"
    /\ tile_img \in Tiles
    /\ vibe_img \in Vibes \cup {tile_img}
    /\ smoothed = NoImage
    /\ saturated = NoImage
    /\ posterized = NoImage
    /\ influenced = NoImage
    /\ result = NoImage

\* Step 1: the two blurs
SmoothStep ==
    /\ stage = "loaded"
    /\ smoothed' = Smooth(tile_img)
    /\ stage' = "smoothed"
    /\ UNCHANGED <<tile_img, vibe_img, saturated, posterized, influenced, result>>
    /\ UNCHANGED <<batchVars, chanVars, otherVars>>

\* the saturation boost
SaturateStep ==
    /\ stage = "smoothed"
    /\ saturated' = EnhanceColor(smoothed)
    /\ stage' = "saturated"
    /\ UNCHANGED <<tile_img, vibe_img, smoothed, posterized, influenced, result>>
    /\ UNCHANGED <<batchVars, chanVars, otherVars>>

\* Step 2
PosterizeStep ==
    /\ stage = "saturated"
    /\ posterized' = PosterizeImage(saturated)
    /\ stage' = "posterized"
    /\ UNCHANGED <<tile_img, vibe_img, smoothed, saturated, influenced, result>>
    /\ UNCHANGED <<batchVars, chanVars, otherVars>>

\* Step 3, color_distance > 20
VibeShift ==
    /\ stage = "posterized"
    /\ ShiftNeeded(vibe_img, posterized)
    /\ influenced' = VibeInfluence(vibe_img, posterized)
    /\ stage' = "influenced"
    /\ UNCHANGED <<tile_img, vibe_img, smoothed, saturated, posterized, result>>
    /\ UNCHANGED <<batchVars, chanVars, otherVars>>

\* Step 3, color_distance <= 20
VibeNoShift ==
    /\ stage = "posterized"
    /\ ~ShiftNeeded(vibe_img, posterized)
    /\ influenced' = VibeInfluence(vibe_img, posterized)
    /\ stage' = "influenced"
    /\ UNCHANGED <<tile_img, vibe_img, smoothed, saturated, posterized, result>>
    /\ UNCHANGED <<batchVars, chanVars, otherVars>>

\* Step 4 and the image handed to result.save
BoostStep ==
    /\ stage = "influenced"
    /\ result' = BoostImage(influenced)
    /\ stage' = "final"
    /\ UNCHANGED <<tile_img, vibe_img, smoothed, saturated, posterized, influenced>>
    /\ UNCHANGED <<batchVars, chanVars, otherVars>>

NextSkin ==
    \/ SmoothStep
    \/ SaturateStep
    \/ PosterizeStep
    \/ VibeShift
    \/ VibeNoShift
    \/ BoostStep

SpecSkin == InitSkin /\ [][NextSkin]_vars

-----------------------------------------------------------------------------
(* apply_skin called on files, one call after the other: the images are    *)
(* opened from tile_path and vibe_path, the pipeline runs, and the result  *)
(* is saved at output_path                                                 *)

\* what a path holds when Image.open(...).convert("RGB") cannot decode it
Corrupt == <<"corrupt">>

\* the tile files and the vibe files of the calls
CallTiles ==
    { Uniform(<<128, 128, 128>>), Uniform(<<12, 12, 12>>),
      Row([i \in Pixels |-> IF 2 * i <= ImgLen THEN <<200, 100, 50>> ELSE <<30, 60, 200>>]) }

CallVibes == { Uniform(<<255, 255, 0>>), Uniform(<<0, 0, 0>>) }

\* the (tile file, vibe file) pairs a call is made on
CallInputs ==
    (CallTiles \X CallVibes)
        \cup { <<Corrupt, Uniform(<<255, 255, 0>>)>>, <<Uniform(<<128, 128, 128>>), Corrupt>> }

\* a file an earlier program left at output_path
OldOutput == Uniform(<<1, 2, 3>>)

\* what the first call finds at output_path: (directory exists, file)
OutputStates == { <<FALSE, NoImage>>, <<TRUE, NoImage>>, <<TRUE, OldOutput>> }

\* the record of a call as it starts: its two input files and what it finds
\* at output_path; ret becomes "saved" or "raised" when the call ends
CallEntry(t, v, d, f) ==
    [tile |-> t, vibe |-> v, dir0 |-> d, file0 |-> f, ret |-> "running", result |-> NoImage]

\* the vibe image of the call before is kept in place of the one at vibe_path
open_vibe_Cached(file) ==
    IF Len(calls) > 1 /\ calls[Len(calls) - 1].vibe # Corrupt
    THEN calls[Len(calls) - 1].vibe
    ELSE file

\* tile_img = Image.open(tile_path).convert("RGB") of a file that decodes
open_tile(file) == file

\* vibe_img = Image.open(vibe_path).convert("RGB") of a file that decodes
open_vibe(file) == file

InitCalls ==
    /\ BatchIdle
    /\ ChanIdle
    /\ ProjIdle
    /\ GateIdle
    /\ stage = "called"
    /\ tile_img = NoImage
    /\ vibe_img = NoImage
    /\ smoothed = NoImage
    /\ saturated = NoImage
    /\ posterized = NoImage
    /\ influenced = NoImage
    /\ result = NoImage
    /\ \E in \in CallInputs : tile_file = in[1] /\ vibe_file = in[2]
    /\ \E o \in OutputStates : out_dir = o[1] /\ out_file = o[2]
    /\ calls = <<CallEntry(tile_file, vibe_file, out_dir, out_file)>>

\* OpenRaises with os.makedirs done before the images are opened
OpenRaises_AfterMakedirs ==
    /\ stage = "called"
    /\ tile_file = Corrupt \/ vibe_file = Corrupt
    /\ stage' = "raised"
    /\ out_dir' = TRUE
    /\ calls' = [calls EXCEPT ![Len(calls)].ret = "raised"]
    /\ UNCHANGED <<tile_img, vibe_img, smoothed, saturated, posterized, influenced, result>>
    /\ UNCHANGED <<tile_file, vibe_file, out_file>>
    /\ UNCHANGED <<batchVars, chanVars, projVars, gateVars>>

\* lines 69-70 raise: one of the two files does not decode
OpenRaises ==
    /\ stage = "called"
    /\ tile_file = Corrupt \/ vibe_file = Corrupt
    /\ stage' = "raised"
    /\ calls' = [calls EXCEPT ![Len(calls)].ret = "raised"]
    /\ UNCHANGED <<tile_img, vibe_img, smoothed, saturated, posterized, influenced, result>>
    /\ UNCHANGED <<tile_file, vibe_file, out_dir, out_file>>
    /\ UNCHANGED <<batchVars, chanVars, projVars, gateVars>>

\* lines 69-70: both images are loaded
OpenImages ==
    /\ stage = "called"
    /\ tile_file # Corrupt
    /\ vibe_file # Corrupt
    /\ tile_img' = open_tile(tile_file)
    /\ vibe_img' = open_vibe(vibe_file)
    /\ stage' = "loaded"
    /\ UNCHANGED <<smoothed, saturated, posterized, influenced, result>>
    /\ UNCHANGED <<batchVars, chanVars, otherVars>>

\* os.makedirs(os.path.dirname(output_path), exist_ok=True); result.save(output_path)
SaveStep ==
    /\ stage = "final"
    /\ out_dir' = TRUE
    /\ out_file' = result
    /\ calls' = [calls EXCEPT ![Len(calls)].ret = "saved", ![Len(calls)].result = result]
    /\ stage' = "saved"
    /\ UNCHANGED <<tile_img, vibe_img, smoothed, saturated, posterized, influenced, result>>
    /\ UNCHANGED <<tile_file, vibe_file>>
    /\ UNCHANGED <<batchVars, chanVars, projVars, gateVars>>

\* the next call of apply_skin, with the same output_path: a new frame, whose
\* locals are unbound
ApplySkinAgain ==
    /\ stage \in {"saved", "raised"}
    /\ Len(calls) < MaxCalls
    /\ \E in \in CallInputs :
          /\ tile_file' = in[1]
          /\ vibe_file' = in[2]
          /\ calls' = Append(calls, CallEntry(in[1], in[2], out_dir, out_file))
    /\ stage' = "called"
    /\ tile_img' = NoImage
    /\ vibe_img' = NoImage
    /\ smoothed' = NoImage
    /\ saturated' = NoImage
    /\ posterized' = NoImage
    /\ influenced' = NoImage
    /\ result' = NoImage
    /\ UNCHANGED <<out_dir, out_file>>
    /\ UNCHANGED <<batchVars, chanVars, projVars, gateVars>>

NextCalls ==
    \/ OpenImages
    \/ OpenRaises
    \/ SmoothStep
    \/ SaturateStep
    \/ PosterizeStep
    \/ VibeShift
    \/ VibeNoShift
    \/ BoostStep
    \/ SaveStep
    \/ ApplySkinAgain

SpecCalls == InitCalls /\ [][NextCalls]_vars

-----------------------------------------------------------------------------
(* lat_lon_to_tile on its own: the x index over the valid longitudes *)

\* the longitudes given to lat_lon_to_tile, in units of 1e-4 degree: both ends
\* of [-180, 180], their neighbours, the batch's center, and every multiple
\* of 360 / 128 degrees (the tile edges of zoom 7)
ProjLons ==
    {-1800000 + 28125 * k : k \in 0..128}
        \cup {-1799999, 1799999, CenterLonE4, 0 - CenterLonE4}

InitProj ==
    /\ BatchIdle
    /\ SkinIdle
    /\ ChanIdle
    /\ CallIdle
    /\ GateIdle
    /\ proj_pc = "called"
    /\ proj_lon \in ProjLons
    /\ proj_zoom \in 0..MaxZoom
    /\ xtile = 0

\* x = int((lon + 180) / 360 * num_tiles); return x, y
LatLonToTile ==
    /\ proj_pc = "called"
    /\ xtile' = lat_lon_to_tile_x(proj_lon, proj_zoom)
    /\ proj_pc' = "returned"
    /\ UNCHANGED <<proj_lon, proj_zoom>>
    /\ UNCHANGED <<batchVars, skinVars, chanVars, callVars, gateVars>>

NextProj ==
    \/ LatLonToTile

SpecProj == InitProj /\ [][NextProj]_vars

-----------------------------------------------------------------------------
(* scripts/ship_it.py: QualityGateExecutor.execute and run_checks_parallel. *)
(* A submitted check is a future of the thread pool: "pending" in the work  *)
(* queue, "running" in a worker thread (its subprocess is alive),           *)
(* "finished", or "cancelled".                                              *)

\* self.all_checks, by flag
all_checks == <<"format", "lint", "types", "tests", "duplication", "security", "sonar">>

\* run_checks_parallel(..., max_workers: int = 6, ...), as execute calls it
max_workers == 6

\* how the subprocess of a check ends: exit code 0, another exit code,
\* subprocess.TimeoutExpired after 300 s, SubprocessError / OSError
Outcomes == {"exit0", "nonzero", "timeout", "oserror"}

known_flags == {all_checks[k] : k \in DOMAIN all_checks}

\* run_single_check with a timeout counted as a pass
run_single_check_TimeoutPasses(o) == IF o \in {"exit0", "timeout"} THEN "PASSED" ELSE "FAILED"

\* the status of the CheckResult run_single_check returns
run_single_check(o) == IF o = "exit0" THEN "PASSED" ELSE "FAILED"

\* the checks_to_run loop leaving unknown names out instead of returning
resolve_checks_SkipUnknown(req) ==
    IF ~req.given
    THEN [ok |-> TRUE, checks |-> all_checks]
    ELSE [ok |-> TRUE, checks |-> SelectSeq(req.names, LAMBDA n : n \in known_flags)]

\* execute, "Determine which checks to run": the list to submit, or not ok
\* when a requested name is not a flag of all_checks (execute returns 1)
resolve_checks(req) ==
    IF ~req.given
    THEN [ok |-> TRUE, checks |-> all_checks]
    ELSE IF \E k \in DOMAIN req.names : req.names[k] \notin known_flags
    THEN [ok |-> FALSE, checks |-> <<>>]
    ELSE [ok |-> TRUE, checks |-> req.names]

Futures == DOMAIN future

\* number of worker threads busy with a check
Running == Cardinality({i \in Futures : future[i] = "running"})

\* the status of the result of future i
StatusOf(i) == run_single_check(outcome[checks_to_run[i]])

\* failed_count = len([r for r in all_results if r.status == FAILED]);
\* return 1 if failed_count > 0 else 0
ExitCode ==
    IF \E i \in Futures : results[i] > 0 /\ StatusOf(i) = "FAILED" THEN 1 ELSE 0

\* the values of --checks looked at
Requests ==
    { [given |-> FALSE, names |-> <<>>],
      [given |-> TRUE, names |-> <<"tests">>],
      [given |-> TRUE, names |-> <<"format", "lint", "tests">>],
      [given |-> TRUE, names |-> <<"lint", "lint">>],
      [given |-> TRUE, names |-> <<"format", "bogus", "lint">>],
      [given |-> TRUE, names |-> <<"bogus">>] }

\* how the checks end in one run of the gate
OutcomeScenarios ==
    { [c \in known_flags |-> "exit0"], [c \in known_flags |-> "nonzero"],
      [c \in known_flags |-> IF c = "tests" THEN "timeout" ELSE "exit0"],
      [c \in known_flags |-> IF c = "sonar" THEN "oserror" ELSE "exit0"],
      [c \in known_flags |-> IF c \in {"format", "tests"} THEN "nonzero" ELSE "exit0"] }
        \cup { [c \in known_flags |-> IF c = f THEN "nonzero" ELSE "exit0"] : f \in known_flags }

InitGate ==
    /\ BatchIdle
    /\ SkinIdle
    /\ ChanIdle
    /\ CallIdle
    /\ ProjIdle
    /\ gate_pc = "called"
    /\ requested \in Requests
    /\ fail_fast \in BOOLEAN
    /\ outcome \in OutcomeScenarios
    /\ checks_to_run = <<>>
    /\ future = <<>>
    /\ results = <<>>
    /\ exit_code = -1

nonGateVars == <<batchVars, skinVars, chanVars, callVars, projVars>>

\* execute with an unknown name among the requested ones: return 1
ExecuteUnknown ==
    /\ gate_pc = "called"
    /\ ~resolve_checks(requested).ok
    /\ gate_pc' = "returned"
    /\ exit_code' = 1
    /\ UNCHANGED <<requested, fail_fast, outcome, checks_to_run, future, results>>
    /\ UNCHANGED nonGateVars

\* execute down to run_checks_parallel's submit of every check
ExecuteSubmit ==
    /\ gate_pc = "called"
    /\ resolve_checks(requested).ok
    /\ checks_to_run' = resolve_checks(requested).checks
    /\ future' = [i \in DOMAIN checks_to_run' |-> "pending"]
    /\ results' = [i \in DOMAIN checks_to_run' |-> 0]
    /\ gate_pc' = "collecting"
    /\ UNCHANGED <<requested, fail_fast, outcome, exit_code>>
    /\ UNCHANGED nonGateVars

\* a worker thread takes the oldest work item of the queue and starts
\* run_single_check; the pool has at most max_workers threads
StartCheck(i) ==
    /\ gate_pc \in {"collecting", "failing"}
    /\ future[i] = "pending"
    /\ \A j \in Futures : j < i => future[j] # "pending"
    /\ Running < max_workers
    /\ future' = [future EXCEPT ![i] = "running"]
    /\ UNCHANGED <<gate_pc, requested, fail_fast, outcome, checks_to_run, results, exit_code>>
    /\ UNCHANGED nonGateVars

\* the subprocess of a running check ends (or times out) and
\* run_single_check returns its CheckResult
FinishCheck(i) ==
    /\ gate_pc \in {"collecting", "failing", "exiting"}
    /\ future[i] = "running"
    /\ future' = [future EXCEPT ![i] = "finished"]
    /\ UNCHANGED <<gate_pc, requested, fail_fast, outcome, checks_to_run, results, exit_code>>
    /\ UNCHANGED nonGateVars

\* as_completed yields a finished future: results.append(result), and with
\* fail_fast a FAILED result takes the fail-fast branch
Collect(i) ==
    /\ gate_pc = "collecting"
    /\ future[i] = "finished"
    /\ results[i] = 0
    /\ results' = [results EXCEPT ![i] = results[i] + 1]
    /\ gate_pc' = IF fail_fast /\ StatusOf(i) = "FAILED" THEN "failing" ELSE "collecting"
    /\ UNCHANGED <<requested, fail_fast, outcome, checks_to_run, future, exit_code>>
    /\ UNCHANGED nonGateVars

\* executor.shutdown(wait=False, cancel_futures=True); sys.exit(1): the
\* pending work items are cancelled and SystemExit leaves the loop into the
\* exit of the with block
Shutdown ==
    /\ gate_pc = "failing"
    /\ future' = [i \in Futures |-> IF future[i] = "pending" THEN "cancelled" ELSE future[i]]
    /\ gate_pc' = "exiting"
    /\ UNCHANGED <<requested, fail_fast, outcome, checks_to_run, results, exit_code>>
    /\ UNCHANGED nonGateVars

\* the with block's exit is executor.shutdown(wait=True): it joins the worker
\* threads, then SystemExit(1) ends the process
ExitProcess ==
    /\ gate_pc = "exiting"
    /\ Running = 0
    /\ gate_pc' = "exited"
    /\ exit_code' = 1
    /\ UNCHANGED <<requested, fail_fast, outcome, checks_to_run, future, results>>
    /\ UNCHANGED nonGateVars

\* every future has been yielded: run_checks_parallel returns the results
\* and execute returns the exit code
ReturnResults ==
    /\ gate_pc = "collecting"
    /\ \A i \in Futures : results[i] > 0
    /\ gate_pc' = "returned"
    /\ exit_code' = ExitCode
    /\ UNCHANGED <<requested, fail_fast, outcome, checks_to_run, future, results>>
    /\ UNCHANGED nonGateVars

NextGate ==
    \/ ExecuteUnknown
    \/ ExecuteSubmit
    \/ \E i \in Futures : StartCheck(i)
    \/ \E i \in Futures : FinishCheck(i)
    \/ \E i \in Futures : Collect(i)
    \/ Shutdown
    \/ ExitProcess
    \/ ReturnResults

SpecGate == InitGate /\ [][NextGate]_vars

-----------------------------------------------------------------------------
(* The per-channel steps on every pair of 8-bit values *)

InitChan ==
    /\ BatchIdle
    /\ SkinIdle
    /\ OthersIdle
    /\ chanIn \in {<<v, w>> : v \in 0..255, w \in 0..255}
    /\ chanOp = "none"
    /\ chanOut = chanIn

ChanPosterize ==
    /\ chanOp = "none"
    /\ chanOp' = "posterize"
    /\ chanOut' = <<Posterize(chanIn[1]), Posterize(chanIn[2])>>
    /\ UNCHANGED <<chanIn, batchVars, skinVars, otherVars>>

ChanBoost ==
    /\ chanOp = "none"
    /\ chanOp' = "boost"
    /\ chanOut' = <<Boost(chanIn[1]), Boost(chanIn[2])>>
    /\ UNCHANGED <<chanIn, batchVars, skinVars, otherVars>>

NextChan ==
    \/ ChanPosterize
    \/ ChanBoost

SpecChan == InitChan /\ [][NextChan]_vars

-----------------------------------------------------------------------------
(* Properties of the batch run *)

LogIdx == 1..Len(log)

LogTiles == {log[k].tile : k \in LogIdx}

\* no coordinate occurs in two iterations of the run
NoTileTwice == Cardinality(LogTiles) = Len(log)

NoneCached == \A t \in AllTiles : raw0[t] = "absent"

\* every download of this run returns False
AllFetchesFail == failing = AllTiles /\ failKind \in {"connect", "read", "write"}

\* C1: for every (zoom, padding) pair the loops have gone through, the visited
\* coordinates of that zoom are exactly the (2*padding+1)^2 distinct pairs
\* (cx+dx, cy+dy) with dx, dy in [-padding, padding], none visited twice; a
\* run that finds every raw tile and returns has called apply_skin
\* 9 + 9 + 25 = 43 times.
C1_GridCompleteness ==
    /\ NoTileTwice
    /\ \A i \in 1..Len(zoom_configs) :
         (pc = "done" \/ ci > i) =>
           LET c == lat_lon_to_tile(zoom_configs[i][1])
               p == zoom_configs[i][2]
               seen == {t \in LogTiles : t.z = zoom_configs[i][1]}
           IN  /\ seen = {[z |-> zoom_configs[i][1], x |-> c[1] + a, y |-> c[2] + b] :
                            a \in (-p)..p, b \in (-p)..p}
               /\ Cardinality(seen) = (2 * p + 1) * (2 * p + 1)
    /\ (pc = "done" /\ \A t \in AllTiles : raw0[t] = "complete") =>
         /\ Len(log) = 9 + 9 + 25
         /\ \A k \in LogIdx : log[k].skin = "saved"

C1_Witness ==
    /\ pc = "done"
    /\ \A t \in AllTiles : raw0[t] = "complete"
    /\ Len(log) = 43
    /\ Cardinality({t \in LogTiles : t.z = 15}) = 25

\* C2: when the run finds no raw tile and every download returns False, every
\* iteration so far attempted its download once and skipped the tile,
\* apply_skin was never called, no output file was written, no exception left
\* the loops, the next iteration can be taken, and the finished run has
\* attempted one download for each of the N coordinates.
C2_AllFetchesFail ==
    (NoneCached /\ AllFetchesFail) =>
        /\ pc # "raised"
        /\ NoTileTwice
        /\ \A k \in LogIdx : log[k].fetch = "false" /\ log[k].skin = "none"
        /\ cartoon = cartoon0
        /\ pc = "running" => ENABLED VisitSkipped
        /\ pc = "done" => LogTiles = AllTiles /\ Len(log) = Cardinality(AllTiles)

C2_Witness ==
    /\ NoneCached
    /\ AllFetchesFail
    /\ pc = "done"
    /\ Len(log) = 43
    /\ cartoon = {}

\* C3: a tile whose download returned False gets no output in this run and
\* never ends the loops; every other tile visited is skinned as it would be
\* otherwise, and a run that returns has visited every coordinate of every
\* grid and skinned all but the failed ones.
C3_FailureSkipsOnlyThatTile ==
    /\ \A k \in LogIdx :
         log[k].fetch = "false" =>
            /\ log[k].skin = "none"
            /\ log[k].tile \in cartoon => log[k].tile \in cartoon0
            /\ k = Len(log) => pc # "raised"
    /\ \A k \in LogIdx :
         (log[k].fetch # "false" /\ (k < Len(log) \/ pc # "raised")) =>
            log[k].skin = "saved" /\ log[k].tile \in cartoon
    /\ pc = "done" => LogTiles = AllTiles

C3_Witness ==
    /\ pc = "done"
    /\ \E j, k \in LogIdx :
         /\ j < k
         /\ log[j].fetch = "false"
         /\ log[k].fetch = "true"
         /\ log[k].skin = "saved"
         /\ log[j].tile \notin cartoon

\* C4: in one run download_osm_tile is called at most once per coordinate,
\* and exactly for the coordinates whose raw path holds no file when they are
\* visited; for a coordinate whose raw file exists apply_skin is called with
\* no download; a failed download is not repeated.
C4_FetchIffMissing ==
    /\ NoTileTwice
    /\ \A k \in LogIdx :
         /\ log[k].cached <=> raw0[log[k].tile] # "absent"
         /\ log[k].fetch # "none" <=> ~log[k].cached
         /\ log[k].cached => log[k].skin # "none"

C4_Witness ==
    /\ pc = "done"
    /\ \E j, k, m \in LogIdx :
         /\ log[j].cached /\ log[j].fetch = "none" /\ log[j].skin = "saved"
         /\ log[k].fetch = "false"
         /\ log[m].fetch = "true"

\* C5: download_osm_tile reports every failure by returning False, no
\* exception leaves it into the batch loop, and it returns True only with the
\* whole body written to the destination path.
C5_FailureIsReturnedFalse ==
    \A k \in LogIdx :
        /\ log[k].fetch # "raised"
        /\ log[k].fetch = "true" => raw[log[k].tile] = "complete"

\* C18: the raw-tile cache only holds whole tiles: after download_osm_tile
\* has returned False no file is at the raw path, and apply_skin is never
\* given an empty or partial raw file, in this run or a later one.
C18_RawCacheHoldsWholeTiles ==
    /\ \A t \in AllTiles : raw[t] \in {"absent", "complete"}
    /\ \A k \in LogIdx :
         /\ log[k].fetch = "false" => raw[log[k].tile] = "absent"
         /\ log[k].skin # "none" => raw[log[k].tile] = "complete"

-----------------------------------------------------------------------------
(* Properties of the pixel pipeline *)

AfterShift == stage \in {"influenced", "final"}

\* (vibe mean - posterized mean) * ImgLen of the run in progress, per channel
RunDiff ==
    <<ChannelSum(vibe_img)[1] - ChannelSum(posterized)[1],
      ChannelSum(vibe_img)[2] - ChannelSum(posterized)[2],
      ChannelSum(vibe_img)[3] - ChannelSum(posterized)[3]>>

\* the squared distance d^2 of the two means, times ImgLen^2
RunSqDist == RunDiff[1] * RunDiff[1] + RunDiff[2] * RunDiff[2] + RunDiff[3] * RunDiff[3]

\* d > 20
RunFar == RunSqDist > 20 * 20 * ImgLen * ImgLen

\* posterized value plus (vibeMean - tileMean) * 0.15, times 20 * ImgLen
ExactShifted(i, c) == 20 * ImgLen * posterized[i][c] + 3 * RunDiff[c]

\* C6: after the vibe step, if d > 20 every channel of every pixel is its
\* posterized value plus the per-channel shift (vibeMean - tileMean) * 0.15,
\* clamped to [0,255] (and truncated to an integer); if d <= 20, d = 20
\* included, the image is exactly the posterized image.
C6_VibeShift ==
    AfterShift =>
        IF RunFar
        THEN \A i \in Pixels, c \in Channels :
                /\ ExactShifted(i, c) <= 0 => influenced[i][c] = 0
                /\ ExactShifted(i, c) >= 255 * 20 * ImgLen => influenced[i][c] = 255
                /\ (ExactShifted(i, c) > 0 /\ ExactShifted(i, c) < 255 * 20 * ImgLen) =>
                      /\ 20 * ImgLen * influenced[i][c] <= ExactShifted(i, c)
                      /\ ExactShifted(i, c) < 20 * ImgLen * (influenced[i][c] + 1)
        ELSE influenced = posterized

C6_Witness ==
    /\ stage = "final"
    /\ RunFar
    /\ \E i \in Pixels, c \in Channels :
         influenced[i][c] \notin {posterized[i][c], 0, 255}
    /\ \E i \in Pixels, c \in Channels :
         influenced[i][c] = 255 /\ ExactShifted(i, c) > 255 * 20 * ImgLen

\* C7 as claimed: whenever the vibe mean is within distance 20 of the
\* posterized tile's mean, the saved image equals the one saved by the run on
\* the same tile with the tile as its own vibe image.
C7_SameAsTileAsVibe ==
    (stage = "final" /\ ~RunFar) => result = SkinOf(tile_img, tile_img)

\* C7 amended: whenever the vibe mean is within distance 20 of the posterized
\* tile's mean, the saved image is the brightness boost of the posterized
\* image (the vibe step is skipped); it equals the image saved with the tile
\* as its own vibe when the tile's own mean is within distance 20 of its
\* posterized mean too.
C7_NoShiftWithinThreshold ==
    (stage = "final" /\ ~RunFar) =>
        /\ result = BoostImage(posterized)
        /\ SqDistance(tile_img, posterized) <= 20 * 20 * ImgLen * ImgLen =>
              result = SkinOf(tile_img, tile_img)

C7_Witness ==
    /\ stage = "final"
    /\ RunSqDist = 20 * 20 * ImgLen * ImgLen
    /\ vibe_img # tile_img
    /\ result = BoostImage(posterized)
    /\ result = SkinOf(tile_img, tile_img)

\* C9: every channel of every image of the pipeline is in [0,255], and a
\* value that the saturation boost, the vibe shift or the brightness boost
\* pushes below 0 or above 255 becomes 0 or 255, not its remainder modulo 256.
InRange(img) == \A i \in DOMAIN img : \A c \in Channels : img[i][c] \in 0..255

C9_ChannelsClamped ==
    /\ InRange(tile_img) /\ InRange(vibe_img) /\ InRange(smoothed)
    /\ InRange(saturated) /\ InRange(posterized) /\ InRange(influenced)
    /\ InRange(result)
    /\ stage \notin {"idle", "loaded", "smoothed"} =>
         \A i \in Pixels, c \in Channels :
            LET e == 18 * smoothed[i][c] - 8 * Luma(smoothed[i])
            IN  /\ e <= 0 => saturated[i][c] = 0
                /\ e >= 2550 => saturated[i][c] = 255
    /\ (AfterShift /\ RunFar) =>
         \A i \in Pixels, c \in Channels :
            /\ ExactShifted(i, c) <= 0 => influenced[i][c] = 0
            /\ ExactShifted(i, c) >= 255 * 20 * ImgLen => influenced[i][c] = 255
    /\ stage = "final" =>
         \A i \in Pixels, c \in Channels :
            11 * influenced[i][c] + 50 >= 2550 => result[i][c] = 255

C9_Witness ==
    /\ stage = "final"
    /\ RunFar
    /\ \E i \in Pixels, c \in Channels :
         ExactShifted(i, c) < 0 /\ influenced[i][c] = 0
    /\ \E i \in Pixels, c \in Channels :
         influenced[i][c] < 255 /\ 11 * influenced[i][c] + 50 > 2550 /\ result[i][c] = 255

\* the tile is one solid gray
SolidGray(img) == \E v \in 0..255 : img = Uniform(<<v, v, v>>)

Yellow == Uniform(<<255, 255, 0>>)

\* the channel sums of the image saved for the same tile with itself as vibe
SelfVibeSum == ChannelSum(SkinOf(tile_img, tile_img))

\* C11: for a solid-gray tile and the solid bright-yellow vibe image (d > 20),
\* the mean of the saved image lies toward yellow of the mean saved for the
\* same tile with itself as vibe: red and green are not lower, blue is not
\* higher, and at least one channel differs.
C11_ShiftTowardYellow ==
    (stage = "final" /\ SolidGray(tile_img) /\ vibe_img = Yellow /\ RunFar) =>
        /\ ChannelSum(result)[1] >= SelfVibeSum[1]
        /\ ChannelSum(result)[2] >= SelfVibeSum[2]
        /\ ChannelSum(result)[3] <= SelfVibeSum[3]
        /\ ChannelSum(result) # SelfVibeSum

C11_Witness ==
    /\ stage = "final"
    /\ tile_img = Uniform(<<128, 128, 128>>)
    /\ vibe_img = Yellow
    /\ RunFar
    /\ ChannelSum(result)[1] > SelfVibeSum[1]
    /\ ChannelSum(result)[3] < SelfVibeSum[3]

-----------------------------------------------------------------------------
(* Properties of apply_skin called on files *)

CallIdx == 1..Len(calls)

\* C12: two calls of apply_skin on the same tile image and the same vibe
\* image save identical pixels, whatever calls on other images were made
\* before or in between.
C12_SameInputsSameOutput ==
    \A j, k \in CallIdx :
        (/\ calls[j].ret = "saved"
         /\ calls[k].ret = "saved"
         /\ calls[j].tile = calls[k].tile
         /\ calls[j].vibe = calls[k].vibe) => calls[j].result = calls[k].result

C12_Witness ==
    /\ Len(calls) = 3
    /\ \A k \in CallIdx : calls[k].ret = "saved"
    /\ calls[1].tile = calls[3].tile
    /\ calls[1].vibe = calls[3].vibe
    /\ calls[2].tile = calls[1].tile
    /\ calls[2].vibe # calls[1].vibe
    /\ calls[2].result # calls[1].result
    /\ calls[3].result = calls[1].result

\* what the call k left at output_path: what the next call found there, or
\* what is there now
DirAfter(k) == IF k < Len(calls) THEN calls[k + 1].dir0 ELSE out_dir

FileAfter(k) == IF k < Len(calls) THEN calls[k + 1].file0 ELSE out_file

\* C19: a call whose tile file or vibe file does not decode ends by raising,
\* never by saving, and leaves the output path as it found it: no file
\* written, an existing file not modified, no directory created.
C19_DecodeErrorLeavesFilesAlone ==
    \A k \in CallIdx :
        /\ (calls[k].tile = Corrupt \/ calls[k].vibe = Corrupt) =>
              /\ calls[k].ret # "saved"
              /\ calls[k].ret = "running" => (k = Len(calls) /\ stage = "called")
              /\ DirAfter(k) = calls[k].dir0
              /\ FileAfter(k) = calls[k].file0
        /\ calls[k].ret = "raised" =>
              /\ calls[k].tile = Corrupt \/ calls[k].vibe = Corrupt
              /\ k = Len(calls) => stage = "raised"

C19_Witness ==
    /\ Len(calls) = 3
    /\ calls[1].ret = "raised" /\ calls[1].tile = Corrupt
    /\ calls[1].dir0 = FALSE /\ calls[2].dir0 = FALSE /\ calls[2].file0 = NoImage
    /\ calls[2].ret = "saved"
    /\ calls[3].ret = "raised" /\ calls[3].vibe = Corrupt
    /\ stage = "raised"
    /\ out_dir = TRUE
    /\ out_file = calls[2].result

-----------------------------------------------------------------------------
(* Properties of lat_lon_to_tile *)

\* C13: for every zoom level z and every longitude in [-180, 180], the x
\* index returned by lat_lon_to_tile is a valid tile index: 0 <= x < 2^z.
C13_XIndexValid ==
    proj_pc = "returned" => (0 <= xtile /\ xtile < 2^proj_zoom)

-----------------------------------------------------------------------------
(* Properties of the quality gate *)

\* the oldest check still waiting in the queue of the pool, if any
OldestPending(i) ==
    /\ i \in Futures
    /\ future[i] = "pending"
    /\ \A j \in Futures : j < i => future[j] # "pending"

\* C14: with the defaults (all seven checks, max_workers as run_checks_parallel
\* defaults it), every submitted check can start without another check
\* having to finish first: while the checks are collected, a check that waits
\* in the queue can be started.
C14_AllChecksStartAtOnce ==
    (gate_pc = "collecting" /\ ~requested.given) =>
        \A i \in Futures : OldestPending(i) => ENABLED StartCheck(i)

\* C15: with fail_fast, once the first FAILED result is collected and
\* sys.exit(1) is called, the process can end with status 1 at once, whatever
\* checks are still running, and no check is left to be started.
C15_FailFastExitsAtOnce ==
    gate_pc = "exiting" =>
        /\ ENABLED ExitProcess
        /\ \A i \in Futures : future[i] # "pending"

\* C16: without fail_fast, no check gets more than one result; when execute
\* returns (no unknown name), every submitted check has exactly one result,
\* the exit code is 1 when some check ended with a non-zero exit code, a
\* timeout or a process error, and 0 exactly when every check ended with
\* exit code 0.
C16_OneResultEachAndExitCode ==
    (~fail_fast /\ gate_pc # "called" /\ resolve_checks(requested).ok) =>
        /\ gate_pc \in {"collecting", "returned"}
        /\ Len(results) = Len(checks_to_run)
        /\ \A i \in Futures : results[i] <= 1
        /\ gate_pc = "returned" =>
              /\ \A i \in Futures : results[i] = 1 /\ future[i] = "finished"
              /\ exit_code \in {0, 1}
              /\ exit_code = 1 <=> \E i \in Futures : outcome[checks_to_run[i]] # "exit0"
              /\ exit_code = 0 <=> \A i \in Futures : outcome[checks_to_run[i]] = "exit0"

C16_Witness ==
    /\ ~fail_fast
    /\ gate_pc = "returned"
    /\ Len(checks_to_run) = 7
    /\ outcome["tests"] = "timeout"
    /\ \A i \in Futures : results[i] = 1
    /\ exit_code = 1

\* C17: when a requested name is not a defined check, execute returns 1 and
\* nothing is submitted or started, the valid names before the unknown one
\* included.
C17_UnknownCheckStartsNothing ==
    (requested.given /\ \E k \in DOMAIN requested.names : requested.names[k] \notin known_flags) =>
        /\ gate_pc \in {"called", "returned"}
        /\ checks_to_run = <<>>
        /\ future = <<>>
        /\ results = <<>>
        /\ gate_pc = "returned" => exit_code = 1

C17_Witness ==
    /\ requested.names = <<"format", "bogus", "lint">>
    /\ gate_pc = "returned"
    /\ exit_code = 1
    /\ future = <<>>

-----------------------------------------------------------------------------
(* Properties of the per-channel steps *)

\* C8 as claimed: the 16 posterization levels span the full range: the lowest
\* value 0 gets the level 0 and the highest value 255 gets the level 255.
C8_LevelsSpanFullRange ==
    chanOp = "posterize" =>
        \A k \in 1..2 :
            /\ chanIn[k] = 0 => chanOut[k] = 0
            /\ chanIn[k] = 255 => chanOut[k] = 255

\* C8 amended: posterization maps every 8-bit value v to 16 * floor(v / 16),
\* one of the 16 levels 0, 16, ..., 240: at most 15 below v, non-decreasing
\* in v, the lowest level 0 and the highest 240.
C8_SixteenLevelsTo240 ==
    chanOp = "posterize" =>
        /\ \A k \in 1..2 :
              /\ chanOut[k] \in {16 * j : j \in 0..15}
              /\ chanOut[k] <= chanIn[k]
              /\ chanIn[k] - chanOut[k] <= 15
              /\ chanIn[k] = 0 => chanOut[k] = 0
              /\ chanIn[k] = 255 => chanOut[k] = 240
        /\ chanIn[1] <= chanIn[2] => chanOut[1] <= chanOut[2]

C8_Witness ==
    /\ chanOp = "posterize"
    /\ chanIn = <<0, 255>>
    /\ chanOut = <<0, 240>>

\* C10: the brightness step maps every 8-bit value v to
\* min(255, trunc(v * 1.1 + 5)): never below v, non-decreasing in v, and 255
\* once v * 1.1 + 5 reaches 255.
C10_BoostSaturates ==
    chanOp = "boost" =>
        /\ \A k \in 1..2 :
              LET t == (11 * chanIn[k] + 50) \div 10
              IN  /\ chanOut[k] = IF t > 255 THEN 255 ELSE t
                  /\ chanOut[k] >= chanIn[k]
                  /\ chanOut[k] <= 255
        /\ chanIn[1] <= chanIn[2] => chanOut[1] <= chanOut[2]

C10_Witness ==
    /\ chanOp = "boost"
    /\ chanIn = <<227, 255>>
    /\ chanOut = <<254, 255>>

=============================================================================
